---- MODULE Spec2Model ----
(***************************************************************************)
(* Model of GitOperationsTool (src/tools/git_operations_tool.py): a facade *)
(* over one GitPython Repo handle and the path it was opened from.         *)
(*                                                                         *)
(* Strings that the code inspects (URLs, credentials) are sequences of     *)
(* lexical pieces, so that str.startswith and str.replace are computed and *)
(* not assumed.  The filesystem and the repositories on it are the `disk`  *)
(* variable; the facade's attributes are variables of their own.           *)
(***************************************************************************)
EXTENDS Integers, Sequences, FiniteSets, TLC

\* Python's None, where the other values are atoms (paths, branch names).
None == "None"
\* Python's None, where the other values are strings held as piece sequences
\* (URLs, credentials); <<>> is the empty string.
NoneStr == <<"None">>

----------------------------------------------------------------------------
(* Bounds of the model.                                                    *)

\* URLs handed to get_authenticated_url are all piece sequences up to this length.
MaxUrlLen == 4
\* Facade operations called after construction.
MaxCalls == 2
\* Changes made to the disk by others (the file writer tool, a shell).
MaxEnvSteps == 1
\* Commits a repository can hold.
MaxCommits == 2

----------------------------------------------------------------------------
(* URLs and credentials.                                                   *)

\* Lexical pieces of a URL.
UrlPieces == {"git@", "https://", "github.com", "gitlab.com", ":", "/", "@"}

\* Owner and repository names (no ':', '/' or '@' inside a name).
Names == {"alice", "proj"}

\* 'git@github.com:'
SSH_PREFIX == <<"git@", "github.com", ":">>
\* 'https://github.com/'
HTTPS_PREFIX == <<"https://", "github.com", "/">>

\* git@github.com:owner/repo.git
SshForm(owner, name) == SSH_PREFIX \o <<owner, "/", name, ".git">>
\* https://github.com/owner/repo.git
HttpsForm(owner, name) == HTTPS_PREFIX \o <<owner, "/", name, ".git">>
\* https://T@github.com/owner/repo.git
TokenForm(T, owner, name) ==
    <<"https://">> \o T \o <<"@", "github.com", "/", owner, "/", name, ".git">>

\* A URL on another host.
OtherUrl == <<"https://", "gitlab.com", "/", "alice", "/", "proj", ".git">>

\* The credentials a facade is configured with.
Credentials == {<<"tok">>, <<"ghp", "x">>}

\* str.startswith
StartsWith(s, p) == Len(s) >= Len(p) /\ SubSeq(s, 1, Len(p)) = p

\* str.replace(old, new): every non-overlapping occurrence, left to right.
RECURSIVE Replace(_, _, _)
Replace(s, old, new) ==
    IF Len(s) < Len(old) THEN s
    ELSE IF SubSeq(s, 1, Len(old)) = old
         THEN new \o Replace(SubSeq(s, Len(old) + 1, Len(s)), old, new)
         ELSE <<Head(s)>> \o Replace(Tail(s), old, new)

\* `not x` of an optional string: None and the empty string are both falsy.
Falsy(x) == x = NoneStr \/ x = <<>>

\* A plausible slip: the SSH form is not converted before the credential goes in.
get_authenticated_url_NoSsh(token, repo_url) ==
    IF Falsy(token) THEN repo_url
    ELSE IF StartsWith(repo_url, HTTPS_PREFIX)
         THEN Replace(repo_url, HTTPS_PREFIX,
                      <<"https://">> \o token \o <<"@", "github.com", "/">>)
         ELSE repo_url

\* A plausible slip: the credential goes into every https URL, whatever the host.
get_authenticated_url_AnyHost(token, repo_url) ==
    IF Falsy(token) THEN repo_url
    ELSE LET u1 == IF StartsWith(repo_url, SSH_PREFIX)
                   THEN Replace(repo_url, SSH_PREFIX, HTTPS_PREFIX)
                   ELSE repo_url
         IN IF StartsWith(u1, <<"https://">>)
            THEN Replace(u1, <<"https://">>, <<"https://">> \o token \o <<"@">>)
            ELSE u1

\* A plausible slip: the credential goes in after the host, so that the result
\* still starts with 'https://github.com/'.
get_authenticated_url_AfterHost(token, repo_url) ==
    IF Falsy(token) THEN repo_url
    ELSE LET u1 == IF StartsWith(repo_url, SSH_PREFIX)
                   THEN Replace(repo_url, SSH_PREFIX, HTTPS_PREFIX)
                   ELSE repo_url
         IN IF StartsWith(u1, HTTPS_PREFIX)
            THEN Replace(u1, HTTPS_PREFIX, HTTPS_PREFIX \o token \o <<"@">>)
            ELSE u1

\* GitOperationsTool._get_authenticated_url
get_authenticated_url(token, repo_url) ==
    IF Falsy(token) THEN repo_url
    ELSE LET u1 == IF StartsWith(repo_url, SSH_PREFIX)
                   THEN Replace(repo_url, SSH_PREFIX, HTTPS_PREFIX)
                   ELSE repo_url
         IN IF StartsWith(u1, HTTPS_PREFIX)
            THEN Replace(u1, HTTPS_PREFIX,
                         <<"https://">> \o token \o <<"@", "github.com", "/">>)
            ELSE u1

\* All sequences over S of length at most n.
SeqsUpTo(S, n) == UNION {[1 .. k -> S] : k \in 0 .. n}

\* The URLs the rewriting is applied to.
UrlInputs ==
    SeqsUpTo(UrlPieces, MaxUrlLen)
        \cup {SshForm(o, n) : o \in Names, n \in Names}
        \cup {HttpsForm(o, n) : o \in Names, n \in Names}
        \cup {OtherUrl}

----------------------------------------------------------------------------
(* The disk: paths, and the repositories at them.                          *)

Paths == {"p1", "p2"}
Branches == {"main", "feat"}
\* A tag of the remote repository: cloning it leaves HEAD detached.
Tag == "v1"
Files == {"a.txt", "b.txt"}
\* File contents; 0 is "no such file".
Contents == {0, 1, 2}
RemoteNames == {"origin", "upstream"}

EmptyTree == [f \in Files |-> 0]
InitialTree == [f \in Files |-> IF f = "a.txt" THEN 1 ELSE 0]

\* Nothing at the path.
Absent == [kind |-> "absent"]
\* A directory that is not a repository.
PlainDir == [kind |-> "dir"]

\* A repository with one commit, a clean tree, HEAD at `active` (a branch name or
\* "DETACHED") and the remote `origin` at origin_url (NoneStr: no remote); `fetched`
\* are the remotes whose references are known locally.
NewRepo(active, origin_url) ==
    [kind |-> "repo",
     commits |-> << [parent |-> 0, tree |-> InitialTree, message |-> "init"] >>,
     heads |-> [b \in Branches |-> IF b = active THEN 1 ELSE 0],
     active |-> active,
     detachedAt |-> IF active = "DETACHED" THEN 1 ELSE 0,
     index |-> InitialTree,
     work |-> InitialTree,
     remotes |-> [r \in RemoteNames |-> IF r = "origin" THEN origin_url ELSE NoneStr],
     fetched |-> IF origin_url = NoneStr THEN {} ELSE {"origin"}]

\* The same repository after a tracked file was edited and a new file written,
\* nothing staged: a.txt is modified and b.txt is untracked.
ChangedTree == [f \in Files |-> IF f = "a.txt" THEN 2 ELSE 1]
ChangedRepo(active, origin_url) == [NewRepo(active, origin_url) EXCEPT !.work = ChangedTree]

\* os.path.exists
exists(d, p) == d[p].kind # "absent"

\* Repo(path) succeeds; otherwise it raises InvalidGitRepositoryError.
IsRepo(d, p) == d[p].kind = "repo"

\* The commit HEAD points to.
HeadCommit(r) == IF r.active = "DETACHED" THEN r.detachedAt ELSE r.heads[r.active]
HeadTree(r) == IF HeadCommit(r) = 0 THEN EmptyTree ELSE r.commits[HeadCommit(r)].tree

\* repo.heads
LocalBranches(r) == {b \in Branches : r.heads[b] # 0}

\* repo.untracked_files
untracked_files(r) == {f \in Files : r.work[f] # 0 /\ r.index[f] = 0}
\* repo.index.diff(None): index against working tree.
diff_index_worktree(r) == {f \in Files : r.index[f] # 0 /\ r.work[f] # r.index[f]}
\* repo.index.diff("HEAD"): index against HEAD.
diff_index_head(r) == {f \in Files : r.index[f] # HeadTree(r)[f]}

\* A plausible slip: is_dirty(untracked_files=True).
is_dirty_Untracked(r) ==
    diff_index_head(r) # {} \/ diff_index_worktree(r) # {} \/ untracked_files(r) # {}

\* repo.is_dirty() with its defaults index=True, working_tree=True,
\* untracked_files=False: untracked files do not make a repository dirty.
is_dirty(r) == diff_index_head(r) # {} \/ diff_index_worktree(r) # {}

\* The commits reachable from commit c, newest first.
RECURSIVE Ancestry(_, _)
Ancestry(r, c) == IF c = 0 THEN <<>> ELSE <<c>> \o Ancestry(r, r.commits[c].parent)

\* commit.hexsha: the SHA-1 of the commit object in hexadecimal, 40 characters that
\* differ from commit to commit.
HexDigits == <<"0", "1", "2", "3", "4", "5", "6", "7",
               "8", "9", "a", "b", "c", "d", "e", "f">>
\* The same in upper case, as another rendering of the hash would give.
hexsha_Upper(c) ==
    [k \in 1 .. 40 |->
        <<"0", "1", "2", "3", "4", "5", "6", "7",
          "8", "9", "A", "B", "C", "D", "E", "F">>[((c * k) % 16) + 1]]
hexsha(c) == [k \in 1 .. 40 |-> HexDigits[((c * k) % 16) + 1]]

\* commit.hexsha[:7]
short_sha(sha) == SubSeq(sha, 1, 7)

\* The entry get_commit_history makes of commit c; commits are numbered as they are
\* created, which stands for the committed date.
commit_entry(r, c) ==
    [sha |-> hexsha(c), short_sha |-> short_sha(hexsha(c)),
     message |-> r.commits[c].message, date |-> c]

\* git checkout of commit `to`: a path that differs between the two trees is
\* rewritten when it is clean, and blocks the checkout when it has local changes.
CheckoutBlocked(r, to) ==
    \E f \in Files :
        /\ HeadTree(r)[f] # r.commits[to].tree[f]
        /\ ~(r.index[f] = HeadTree(r)[f] /\ r.work[f] = r.index[f])
CheckoutFiles(r, to, part) ==
    [f \in Files |-> IF HeadTree(r)[f] # r.commits[to].tree[f]
                     THEN r.commits[to].tree[f] ELSE part[f]]
\* A checkout that leaves HEAD where it is.
CheckedOut_Stay(r, b) == r
\* Head.checkout() of branch b, when it is not blocked.
CheckedOut(r, b) ==
    [r EXCEPT !.active = b,
              !.detachedAt = 0,
              !.index = CheckoutFiles(r, r.heads[b], r.index),
              !.work = CheckoutFiles(r, r.heads[b], r.work)]

----------------------------------------------------------------------------
(* The facade.                                                             *)

VARIABLES
    phase,             \* "new": not constructed; "live"; "failed": __init__ raised
    repo,              \* self.repo: None, or the path the Repo handle was opened at
    repo_path,         \* self.repo_path
    github_token,      \* self.github_token
    default_repo_url,  \* self.default_repo_url
    default_branch,    \* self.default_branch
    disk,              \* what is at each path
    result,            \* how the last call ended: the record returned, or the exception
    calls,             \* operations called so far
    envSteps,          \* changes made to the disk by others so far
    pc,                \* where each caller is inside clone_repository ("idle": outside)
    mutex              \* the callers' own lock: "unused", "free", or its holder

vars == <<phase, repo, repo_path, github_token, default_repo_url, default_branch,
          disk, result, calls, envSteps, pc, mutex>>

\* The callers of the facade; each clones to a destination of its own.
Callers == {"c1", "c2"}
Destination == [c \in Callers |-> IF c = "c1" THEN "p1" ELSE "p2"]

\* One call at a time, each run to its end: no caller is inside a call and no lock
\* is needed.
OneAtATime == pc = [c \in Callers |-> "idle"] /\ mutex = "unused"

\* The result of no call at all; the fields a call does not set keep these values.
\* `reopened` counts the calls of _ensure_repo_loaded and `network` the calls of
\* clone_from, push and pull the operation made.  `arg`, `dest`, `name`, `flag`,
\* `max_count` and `file_paths` keep the arguments of the call, and `push_info` what
\* Remote.push returned.  A key the returned dictionary does not have keeps the
\* value it has here: the dictionary of commit has commit_sha and no short_sha.
NoResult ==
    [op |-> "none", outcome |-> "none", success |-> FALSE, error |-> <<>>, exc |-> None,
     repo_path |-> None, current_branch |-> None, using_token |-> FALSE,
     branch_name |-> None, checked_out |-> FALSE,
     untracked_files |-> {}, modified_files |-> {}, staged_files |-> {},
     is_dirty |-> FALSE, local_branches |-> {}, remote_branches |-> {},
     commits |-> <<>>, count |-> 0, commit_sha |-> NoneStr, diff |-> {}, remote |-> None,
     short_sha |-> NoneStr, commit_message |-> "", push_info |-> <<>>,
     arg |-> <<>>, dest |-> None, name |-> None, flag |-> FALSE, max_count |-> 0,
     file_paths |-> [given |-> FALSE, paths |-> {}],
     value |-> <<>>, reopened |-> 0, network |-> 0]

\* The operation returned a dictionary.
Returned(op) == [NoResult EXCEPT !.op = op, !.outcome = "returned"]
Ok(op) == [Returned(op) EXCEPT !.success = TRUE]
Fail(op, error) == [Returned(op) EXCEPT !.error = error]
\* An exception left the operation.
Raised(op, exc) == [NoResult EXCEPT !.op = op, !.outcome = "raised", !.exc = exc]

\* What an operation leaves behind: the two attributes it may assign, the disk, and
\* how it ended.
Effect(h, p, d, res) == [repo |-> h, repo_path |-> p, disk |-> d, result |-> res]

\* `not path`: None and '' are falsy.
NoPath(p) == p = None \/ p = ""

\* GitOperationsTool._ensure_repo_loaded: the value of self.repo after it ran on an
\* unbound facade (InvalidGitRepositoryError is caught).
ensure_repo_loaded(p, d) ==
    IF ~NoPath(p) /\ exists(d, p)
    THEN IF IsRepo(d, p) THEN p ELSE None
    ELSE None

\* `if not self.repo: self._ensure_repo_loaded()` at the top of an operation.
Loaded(h, p, d) == IF h = None THEN ensure_repo_loaded(p, d) ELSE h
\* _ensure_repo_loaded called whether or not self.repo is set.
Attempts_Always(h) == 1
\* The calls of _ensure_repo_loaded that line makes.
Attempts(h) == IF h = None THEN 1 ELSE 0

\* A plausible slip: the second `if not self.repo` is missing, and the operation
\* goes on to use None as a repository.
NoRepositoryLoaded_Missing(op, h) ==
    [Raised(op, "AttributeError") EXCEPT !.reopened = Attempts(h)]

\* `if not self.repo: return {"success": False, "error": "No repository loaded"}`
NoRepositoryLoaded(op, h) ==
    [Fail(op, <<"No repository loaded">>) EXCEPT !.reopened = Attempts(h)]

----------------------------------------------------------------------------
(* Construction.                                                           *)

\* The process environment read by __init__ (None: the variable is not set).
Environments ==
    { [GIT_REPO_PATH |-> None, GITHUB_TOKEN |-> NoneStr,
       GIT_REPO_URL |-> NoneStr, GIT_DEFAULT_BRANCH |-> None],
      [GIT_REPO_PATH |-> "p1", GITHUB_TOKEN |-> <<"tok">>,
       GIT_REPO_URL |-> HttpsForm("alice", "proj"), GIT_DEFAULT_BRANCH |-> "feat"] }

\* Python's `a or b` on optional strings and on optional paths.
OrStr(a, b) == IF Falsy(a) THEN b ELSE a
OrPath(a, b) == IF NoPath(a) THEN b ELSE a

\* os.getenv('GIT_DEFAULT_BRANCH', 'main')
getenv_default_branch(env) ==
    IF env.GIT_DEFAULT_BRANCH = None THEN "main" ELSE env.GIT_DEFAULT_BRANCH

\* The path __init__ settles on.
init_repo_path(arg_path, use_env_config, env) ==
    IF use_env_config THEN OrPath(arg_path, env.GIT_REPO_PATH) ELSE arg_path

\* A plausible slip: an existing path that is no repository is tolerated.
init_raises_Never(p, d) == FALSE

\* __init__ raises ValueError: the path exists and Repo(path) raised
\* InvalidGitRepositoryError.
init_raises(p, d) == ~NoPath(p) /\ exists(d, p) /\ ~IsRepo(d, p)

\* self.repo at the end of __init__.
init_repo(p, d) == IF ~NoPath(p) /\ exists(d, p) /\ IsRepo(d, p) THEN p ELSE None

\* GitOperationsTool.__init__
Construct(arg_path, arg_token, use_env_config, env) ==
    /\ phase = "new"
    /\ LET p == init_repo_path(arg_path, use_env_config, env)
       IN /\ repo_path' = p
          /\ github_token' = IF use_env_config THEN OrStr(arg_token, env.GITHUB_TOKEN)
                             ELSE arg_token
          /\ default_repo_url' = IF use_env_config THEN env.GIT_REPO_URL ELSE NoneStr
          /\ default_branch' = IF use_env_config THEN getenv_default_branch(env)
                               ELSE "main"
          /\ repo' = init_repo(p, disk)
          /\ IF init_raises(p, disk)
             THEN /\ phase' = "failed"
                  /\ result' = [Raised("__init__", "ValueError")
                                   EXCEPT !.error = <<p, " is not a valid Git repository">>]
             ELSE /\ phase' = "live"
                  /\ result' = [Returned("__init__") EXCEPT !.success = TRUE]
    /\ UNCHANGED <<disk, calls, envSteps, pc, mutex>>

----------------------------------------------------------------------------
(* clone_repository.                                                       *)

\* What the remote repository offers: its branches and one tag.
RemoteRefs == Branches \cup {Tag}

\* Outcomes of Repo.clone_from: the clone is made, or git fails (network, access,
\* destination not empty, no such remote branch).
CloneOutcomes == {"cloned", "GitCommandError"}

MissingUrl == <<"No repository URL provided and GIT_REPO_URL not set in environment">>
MissingDestination ==
    <<"No destination path provided and GIT_REPO_PATH not set in environment">>

\* The branch handed to clone_from (None: the remote's default branch).
clone_branch(branch) ==
    IF branch # None /\ branch # "" THEN branch
    ELSE IF default_branch # "" THEN default_branch ELSE None

\* A plausible slip: the path is stored before the clone is attempted.
clone_failed_PathFirst(h, p, d, destination_path, detail) ==
    Effect(h, destination_path, d,
           [Fail("clone_repository", <<"Failed to clone repository: ", detail>>)
               EXCEPT !.network = 1])

\* A failed clone that is tried a second time before the failure is returned.
clone_failed_Retried(h, p, d, destination_path, detail) ==
    Effect(h, p, d,
           [Fail("clone_repository", <<"Failed to clone repository: ", detail>>)
               EXCEPT !.network = 2])

\* The `except GitCommandError` branch of clone_repository: nothing was assigned.
clone_failed(h, p, d, destination_path, detail) ==
    Effect(h, p, d,
           [Fail("clone_repository", <<"Failed to clone repository: ", detail>>)
               EXCEPT !.network = 1])

\* How the call ends once clone_from has returned: reading active_branch raises
\* TypeError when HEAD is detached.
clone_result(destination_path, active) ==
    IF active = "DETACHED"
    THEN [Raised("clone_repository", "TypeError") EXCEPT !.network = 1]
    ELSE [Ok("clone_repository") EXCEPT
              !.repo_path = destination_path,
              !.current_branch = active,
              !.using_token = (github_token # NoneStr),
              !.network = 1]

\* HEAD of a fresh clone of `branch`: a tag leaves it detached, no branch is the
\* remote's default branch.
clone_head(branch) ==
    IF branch = Tag THEN "DETACHED" ELSE IF branch = None THEN "main" ELSE branch

\* A plausible slip: the new handle is bound but the stored path is kept.
clone_bound_KeepPath(h, p, d, destination_path, authenticated_url, branch) ==
    Effect(destination_path, p,
           [d EXCEPT ![destination_path] = NewRepo(clone_head(branch), authenticated_url)],
           clone_result(destination_path, clone_head(branch)))

\* The stored path is assigned and the handle is left as it was.
clone_bound_KeepHandle(h, p, d, destination_path, authenticated_url, branch) ==
    Effect(h, destination_path,
           [d EXCEPT ![destination_path] = NewRepo(clone_head(branch), authenticated_url)],
           clone_result(destination_path, clone_head(branch)))

\* clone_from returned: self.repo and self.repo_path are assigned, then the result
\* is built.
clone_bound(h, p, d, destination_path, authenticated_url, branch) ==
    Effect(destination_path, destination_path,
           [d EXCEPT ![destination_path] = NewRepo(clone_head(branch), authenticated_url)],
           clone_result(destination_path, clone_head(branch)))

\* The try block of clone_repository.  git refuses a destination that holds a
\* repository, and a branch the remote does not have.
clone_attempt(h, p, d, repo_url, destination_path, branch_arg, lib) ==
    LET branch == clone_branch(branch_arg)
        authenticated_url == get_authenticated_url(github_token, repo_url)
    IN IF /\ lib = "cloned"
          /\ ~IsRepo(d, destination_path)
          /\ branch \in RemoteRefs \cup {None}
       THEN clone_bound(h, p, d, destination_path, authenticated_url, branch)
       ELSE clone_failed(h, p, d, destination_path, "GitCommandError")

\* A plausible slip: the destination is checked before the URL.
clone_repository_effect_DestFirst(h, p, d, url_arg, dest_arg, branch_arg, lib) ==
    LET repo_url == OrStr(url_arg, default_repo_url)
        destination_path == OrPath(dest_arg, p)
    IN IF NoPath(destination_path)
       THEN Effect(h, p, d, Fail("clone_repository", MissingDestination))
       ELSE IF Falsy(repo_url)
       THEN Effect(h, p, d, Fail("clone_repository", MissingUrl))
       ELSE clone_attempt(h, p, d, repo_url, destination_path, branch_arg, lib)

\* GitOperationsTool.clone_repository
clone_repository_effect(h, p, d, url_arg, dest_arg, branch_arg, lib) ==
    LET repo_url == OrStr(url_arg, default_repo_url)
        destination_path == OrPath(dest_arg, p)
    IN IF Falsy(repo_url)
       THEN Effect(h, p, d, Fail("clone_repository", MissingUrl))
       ELSE IF NoPath(destination_path)
       THEN Effect(h, p, d, Fail("clone_repository", MissingDestination))
       ELSE clone_attempt(h, p, d, repo_url, destination_path, branch_arg, lib)

----------------------------------------------------------------------------
(* Branches.                                                               *)

\* repo.rev_parse of a start point: a commit, or 0 when the name resolves to nothing
\* (rev_parse raises BadName).
rev_parse(r, start_point) ==
    IF start_point = None \/ start_point = "" THEN HeadCommit(r)
    ELSE IF start_point \in Branches THEN r.heads[start_point] ELSE 0

\* The body of create_branch on a loaded repository h.  repo.create_head resolves
\* the start point (BadName when it does not resolve) and writes the reference
\* (OSError when the name exists and points elsewhere); neither is a
\* GitCommandError.  Head.checkout() runs git and raises GitCommandError when local
\* changes block it.  repo.active_branch raises TypeError on a detached HEAD.
create_branch_body(h, p, d, branch_name, checkout, start_point) ==
    LET r == d[h]
        target == rev_parse(r, start_point)
        r2 == [r EXCEPT !.heads[branch_name] = target]
        d2 == [d EXCEPT ![h] = r2]
    IN IF target = 0
       THEN Effect(h, p, d, Raised("create_branch", "BadName"))
       ELSE IF r.heads[branch_name] # 0 /\ r.heads[branch_name] # target
       THEN Effect(h, p, d, Raised("create_branch", "OSError"))
       ELSE IF checkout /\ CheckoutBlocked(r2, target)
       THEN Effect(h, p, d2,
                   Fail("create_branch", <<"Failed to create branch: ", "GitCommandError">>))
       ELSE LET r3 == IF checkout THEN CheckedOut(r2, branch_name) ELSE r2
                d3 == [d EXCEPT ![h] = r3]
            IN IF r3.active = "DETACHED"
               THEN Effect(h, p, d3, Raised("create_branch", "TypeError"))
               ELSE Effect(h, p, d3,
                           [Ok("create_branch") EXCEPT
                                !.branch_name = branch_name,
                                !.checked_out = checkout,
                                !.current_branch = r3.active])

\* GitOperationsTool.create_branch
create_branch_effect(h, p, d, branch_name, checkout, start_point) ==
    LET h1 == Loaded(h, p, d)
    IN IF h1 = None
       THEN Effect(h1, p, d, NoRepositoryLoaded("create_branch", h))
       ELSE LET e == create_branch_body(h1, p, d, branch_name, checkout, start_point)
            IN [e EXCEPT !.result.reopened = @ + Attempts(h)]

\* The delegation done without the checkout.
delegate_create_branch_NoCheckout(h, p, d, branch_name) ==
    create_branch_effect(h, p, d, branch_name, FALSE, None)
\* `return self.create_branch(branch_name, checkout=True)`
delegate_create_branch(h, p, d, branch_name) ==
    create_branch_effect(h, p, d, branch_name, TRUE, None)

\* GitOperationsTool.checkout_branch; with create_if_missing it calls create_branch,
\* which finds self.repo set.
checkout_branch_effect(h, p, d, branch_name, create_if_missing) ==
    LET h1 == Loaded(h, p, d)
    IN IF h1 = None
       THEN Effect(h1, p, d, NoRepositoryLoaded("checkout_branch", h))
       ELSE LET r == d[h1]
            IN IF branch_name \in LocalBranches(r)
               THEN IF CheckoutBlocked(r, r.heads[branch_name])
                    THEN Effect(h1, p, d,
                                [Fail("checkout_branch",
                                      <<"Failed to checkout branch: ", "GitCommandError">>)
                                    EXCEPT !.reopened = Attempts(h)])
                    ELSE Effect(h1, p, [d EXCEPT ![h1] = CheckedOut(r, branch_name)],
                                [Ok("checkout_branch") EXCEPT
                                     !.current_branch = branch_name,
                                     !.reopened = Attempts(h)])
               ELSE IF create_if_missing
               THEN LET e == delegate_create_branch(h1, p, d, branch_name)
                    IN [e EXCEPT !.result.op = "checkout_branch",
                                 !.result.reopened = @ + Attempts(h)]
               ELSE Effect(h1, p, d,
                           [Fail("checkout_branch",
                                 <<"Branch '", branch_name, "' does not exist">>)
                               EXCEPT !.reopened = Attempts(h)])

----------------------------------------------------------------------------
(* Staging and committing.                                                 *)

\* The file_paths argument: not given (None), or a list of paths.
FilePathArgs == {[given |-> FALSE, paths |-> {}]}
                    \cup {[given |-> TRUE, paths |-> S] : S \in SUBSET Files}

\* Outcomes of a git command that changes the repository: done, or refused.
GitOutcomes == {"done", "GitCommandError"}

\* `elif file_paths:` taken for every list, the empty one too.
some_file_paths_AnyList(file_paths) == file_paths.given
\* `elif file_paths:` is taken for a list that is not empty.
some_file_paths(file_paths) == file_paths.given /\ file_paths.paths # {}

\* `git add -A` that leaves untracked files out (what `git add -u` does).
git_add_all_Tracked(r) ==
    [r EXCEPT !.index = [f \in Files |-> IF r.index[f] # 0 THEN r.work[f] ELSE 0]]
\* repo.git.add(A=True): the index becomes the working tree.
git_add_all(r) == [r EXCEPT !.index = r.work]

\* GitOperationsTool.stage_files.  `git add -A` makes the index equal to the working
\* tree; index.add raises FileNotFoundError for a path that is not in the working
\* tree.
stage_files_effect(h, p, d, file_paths, stage_all, lib) ==
    LET h1 == Loaded(h, p, d)
    IN IF h1 = None
       THEN Effect(h1, p, d, NoRepositoryLoaded("stage_files", h))
       ELSE LET r == d[h1]
                att == Attempts(h)
            IN IF stage_all
               THEN IF lib = "GitCommandError"
                    THEN Effect(h1, p, d,
                                [Fail("stage_files",
                                      <<"Failed to stage files: ", "GitCommandError">>)
                                    EXCEPT !.reopened = att])
                    ELSE LET r2 == git_add_all(r)
                         IN Effect(h1, p, [d EXCEPT ![h1] = r2],
                                   [Ok("stage_files") EXCEPT
                                        !.staged_files = diff_index_head(r2),
                                        !.reopened = att])
               ELSE IF some_file_paths(file_paths)
               THEN IF \E f \in file_paths.paths : r.work[f] = 0
                    THEN Effect(h1, p, d,
                                [Raised("stage_files", "FileNotFoundError")
                                    EXCEPT !.reopened = att])
                    ELSE LET r2 == [r EXCEPT !.index =
                                       [f \in Files |-> IF f \in file_paths.paths
                                                        THEN r.work[f] ELSE r.index[f]]]
                         IN Effect(h1, p, [d EXCEPT ![h1] = r2],
                                   [Ok("stage_files") EXCEPT
                                        !.staged_files = file_paths.paths,
                                        !.reopened = att])
               ELSE Effect(h1, p, d,
                           [Fail("stage_files",
                                 <<"No files specified and stage_all is False">>)
                               EXCEPT !.reopened = att])

\* GitOperationsTool.commit.  index.commit writes a commit of the index on top of
\* HEAD and moves HEAD to it, whatever the message and whether or not the index
\* differs from HEAD.
commit_effect(h, p, d, message) ==
    LET h1 == Loaded(h, p, d)
    IN IF h1 = None
       THEN Effect(h1, p, d, NoRepositoryLoaded("commit", h))
       ELSE LET r == d[h1]
                new == Len(r.commits) + 1
                c == [parent |-> HeadCommit(r), tree |-> r.index, message |-> message]
                r2 == IF r.active = "DETACHED"
                      THEN [r EXCEPT !.commits = Append(@, c), !.detachedAt = new]
                      ELSE [r EXCEPT !.commits = Append(@, c), !.heads[r.active] = new]
            IN Effect(h1, p, [d EXCEPT ![h1] = r2],
                      [Ok("commit") EXCEPT !.commit_sha = hexsha(new),
                                           !.commit_message = message,
                                           !.reopened = Attempts(h)])

----------------------------------------------------------------------------
(* Push and pull.                                                          *)

\* What Remote.push returns: one PushInfo per reference, here its ERROR flag; or git
\* fails and GitCommandError is raised.
PushInfoLists == {<<>>, <<FALSE>>, <<TRUE>>, <<FALSE, TRUE>>}
PushOutcomes == {[raised |-> FALSE, info |-> l] : l \in PushInfoLists}
                    \cup {[raised |-> TRUE, info |-> <<>>]}

\* A check that lets every push result pass.
push_flagged_Never(push_info) == FALSE
\* A check that looks at every PushInfo of the list.
push_flagged_Any(push_info) == \E i \in 1 .. Len(push_info) : push_info[i]
\* `if push_info and len(push_info) > 0: ... if info.flags & info.ERROR`, with info
\* the first PushInfo.
push_flagged(push_info) == Len(push_info) > 0 /\ push_info[1]

\* The `if self.github_token:` block of push and pull: the remote's URL is replaced
\* by the authenticated one.
with_authenticated_remote(r, remote) ==
    IF Falsy(github_token) THEN r
    ELSE [r EXCEPT !.remotes[remote] = get_authenticated_url(github_token, @)]

\* GitOperationsTool.push.  repo.remote(name) raises ValueError when there is no
\* such remote; only the first PushInfo is inspected.
push_effect(h, p, d, remote, branch_arg, lib) ==
    LET h1 == Loaded(h, p, d)
    IN IF h1 = None
       THEN Effect(h1, p, d, NoRepositoryLoaded("push", h))
       ELSE LET r == d[h1]
                att == Attempts(h)
                branch == IF branch_arg = None \/ branch_arg = ""
                          THEN r.active ELSE branch_arg
                r2 == with_authenticated_remote(r, remote)
                d2 == [d EXCEPT ![h1] = r2]
            IN IF branch = "DETACHED"
               THEN Effect(h1, p, d, [Raised("push", "TypeError") EXCEPT !.reopened = att])
               ELSE IF r.remotes[remote] = NoneStr
               THEN Effect(h1, p, d, [Raised("push", "ValueError") EXCEPT !.reopened = att])
               ELSE IF lib.raised
               THEN Effect(h1, p, d2,
                           [Fail("push", <<"Failed to push: ", "GitCommandError">>)
                               EXCEPT !.reopened = att, !.network = 1])
               ELSE IF push_flagged(lib.info)
               THEN Effect(h1, p, d2,
                           [Fail("push", <<"Push failed: ", "summary">>)
                               EXCEPT !.push_info = lib.info,
                                      !.reopened = att, !.network = 1])
               ELSE Effect(h1, p,
                           [d2 EXCEPT ![h1].fetched = @ \cup {remote}],
                           [Ok("push") EXCEPT
                                !.remote = remote,
                                !.branch_name = branch,
                                !.using_token = (github_token # NoneStr),
                                !.push_info = lib.info,
                                !.reopened = att, !.network = 1])

\* Outcomes of Remote.pull: nothing new, a new commit fast-forwarded to, or git fails.
PullOutcomes == {"up to date", "fast-forward", "GitCommandError"}

\* The tree of the commit a pull brings in.
PulledTree == [f \in Files |-> IF f = "a.txt" THEN 2 ELSE 0]

\* git cannot fast-forward: HEAD is detached, local changes are in the way, or the
\* repository is full.
cannot_fast_forward(r) ==
    \/ r.active = "DETACHED"
    \/ Len(r.commits) >= MaxCommits
    \/ \E f \in Files : r.index[f] # HeadTree(r)[f] \/ r.work[f] # r.index[f]

\* A pull that puts the URL back when git fails.
pull_effect_Undone(h, p, d, remote, branch_arg, lib) ==
    LET h1 == Loaded(h, p, d)
    IN IF h1 = None
       THEN Effect(h1, p, d, NoRepositoryLoaded("pull", h))
       ELSE LET r == d[h1]
                att == Attempts(h)
                r2 == with_authenticated_remote(r, remote)
                new == Len(r.commits) + 1
                r3 == [r2 EXCEPT !.commits = Append(@, [parent |-> HeadCommit(r),
                                                       tree |-> PulledTree,
                                                       message |-> "pulled"]),
                                 !.heads[r.active] = new,
                                 !.index = PulledTree,
                                 !.work = PulledTree,
                                 !.fetched = @ \cup {remote}]
            IN IF r.remotes[remote] = NoneStr
               THEN Effect(h1, p, d, [Raised("pull", "ValueError") EXCEPT !.reopened = att])
               ELSE IF lib = "GitCommandError"
                       \/ (lib = "fast-forward" /\ cannot_fast_forward(r))
               THEN Effect(h1, p, d,
                           [Fail("pull", <<"Failed to pull: ", "GitCommandError">>)
                               EXCEPT !.reopened = att, !.network = 1])
               ELSE Effect(h1, p,
                           [d EXCEPT ![h1] =
                               IF lib = "fast-forward" THEN r3
                               ELSE [r2 EXCEPT !.fetched = @ \cup {remote}]],
                           [Ok("pull") EXCEPT
                                !.remote = remote,
                                !.using_token = (github_token # NoneStr),
                                !.reopened = att, !.network = 1])

\* GitOperationsTool.pull
pull_effect(h, p, d, remote, branch_arg, lib) ==
    LET h1 == Loaded(h, p, d)
    IN IF h1 = None
       THEN Effect(h1, p, d, NoRepositoryLoaded("pull", h))
       ELSE LET r == d[h1]
                att == Attempts(h)
                r2 == with_authenticated_remote(r, remote)
                new == Len(r.commits) + 1
                r3 == [r2 EXCEPT !.commits = Append(@, [parent |-> HeadCommit(r),
                                                       tree |-> PulledTree,
                                                       message |-> "pulled"]),
                                 !.heads[r.active] = new,
                                 !.index = PulledTree,
                                 !.work = PulledTree,
                                 !.fetched = @ \cup {remote}]
            IN IF r.remotes[remote] = NoneStr
               THEN Effect(h1, p, d, [Raised("pull", "ValueError") EXCEPT !.reopened = att])
               ELSE IF lib = "GitCommandError"
                       \/ (lib = "fast-forward" /\ cannot_fast_forward(r))
               THEN Effect(h1, p, [d EXCEPT ![h1] = r2],
                           [Fail("pull", <<"Failed to pull: ", "GitCommandError">>)
                               EXCEPT !.reopened = att, !.network = 1])
               ELSE Effect(h1, p,
                           [d EXCEPT ![h1] =
                               IF lib = "fast-forward" THEN r3
                               ELSE [r2 EXCEPT !.fetched = @ \cup {remote}]],
                           [Ok("pull") EXCEPT
                                !.remote = remote,
                                !.using_token = (github_token # NoneStr),
                                !.reopened = att, !.network = 1])

----------------------------------------------------------------------------
(* Reading the repository, and remotes.                                    *)

\* A status that writes the index while it reads it: the work tree is staged.
get_status_effect_Staging(h, p, d) ==
    LET h1 == Loaded(h, p, d)
    IN IF h1 = None
       THEN Effect(h1, p, d, NoRepositoryLoaded("get_status", h))
       ELSE LET r == d[h1]
            IN IF r.active = "DETACHED"
               THEN Effect(h1, p, d,
                           [Fail("get_status", <<"Failed to get status: ", "TypeError">>)
                               EXCEPT !.reopened = Attempts(h)])
               ELSE Effect(h1, p, [d EXCEPT ![h1].index = r.work],
                           [Ok("get_status") EXCEPT
                                !.current_branch = r.active,
                                !.untracked_files = untracked_files(r),
                                !.modified_files = diff_index_worktree(r),
                                !.staged_files = diff_index_head(r),
                                !.is_dirty = is_dirty(r),
                                !.reopened = Attempts(h)])

\* GitOperationsTool.get_status; `except Exception` catches the TypeError of
\* active_branch on a detached HEAD.
get_status_effect(h, p, d) ==
    LET h1 == Loaded(h, p, d)
    IN IF h1 = None
       THEN Effect(h1, p, d, NoRepositoryLoaded("get_status", h))
       ELSE LET r == d[h1]
            IN IF r.active = "DETACHED"
               THEN Effect(h1, p, d,
                           [Fail("get_status", <<"Failed to get status: ", "TypeError">>)
                               EXCEPT !.reopened = Attempts(h)])
               ELSE Effect(h1, p, d,
                           [Ok("get_status") EXCEPT
                                !.current_branch = r.active,
                                !.untracked_files = untracked_files(r),
                                !.modified_files = diff_index_worktree(r),
                                !.staged_files = diff_index_head(r),
                                !.is_dirty = is_dirty(r),
                                !.reopened = Attempts(h)])

\* GitOperationsTool.get_branches; repo.remote() is the remote named origin.
get_branches_effect(h, p, d, include_remote) ==
    LET h1 == Loaded(h, p, d)
    IN IF h1 = None
       THEN Effect(h1, p, d, NoRepositoryLoaded("get_branches", h))
       ELSE LET r == d[h1]
            IN IF r.active = "DETACHED"
               THEN Effect(h1, p, d,
                           [Fail("get_branches", <<"Failed to get branches: ", "TypeError">>)
                               EXCEPT !.reopened = Attempts(h)])
               ELSE IF include_remote /\ r.remotes["origin"] = NoneStr
               THEN Effect(h1, p, d,
                           [Fail("get_branches", <<"Failed to get branches: ", "ValueError">>)
                               EXCEPT !.reopened = Attempts(h)])
               ELSE Effect(h1, p, d,
                           [Ok("get_branches") EXCEPT
                                !.current_branch = r.active,
                                !.local_branches = LocalBranches(r),
                                !.remote_branches =
                                    IF include_remote /\ "origin" \in r.fetched
                                    THEN Branches ELSE {},
                                !.reopened = Attempts(h)])

\* list(iter_commits(rev, max_count=n)): at most n commits from the start, newest
\* first; a negative n is no limit.
iter_commits_OldestFirst(r, start, max_count) ==
    LET all == Ancestry(r, start)
        n == Len(all)
    IN IF max_count < 0 \/ max_count >= n THEN [i \in 1 .. n |-> all[n + 1 - i]]
       ELSE [i \in 1 .. max_count |-> all[n + 1 - i]]
iter_commits(r, start, max_count) ==
    LET all == Ancestry(r, start)
    IN IF max_count < 0 \/ max_count >= Len(all) THEN all ELSE SubSeq(all, 1, max_count)

\* GitOperationsTool.get_commit_history; a branch git does not know makes rev-list
\* fail, which `except Exception` catches.
get_commit_history_effect(h, p, d, max_count, branch) ==
    LET h1 == Loaded(h, p, d)
    IN IF h1 = None
       THEN Effect(h1, p, d, NoRepositoryLoaded("get_commit_history", h))
       ELSE LET r == d[h1]
                start == IF branch = None \/ branch = "" THEN HeadCommit(r)
                         ELSE IF branch \in Branches THEN r.heads[branch] ELSE 0
                commits == iter_commits(r, start, max_count)
            IN IF start = 0
               THEN Effect(h1, p, d,
                           [Fail("get_commit_history",
                                 <<"Failed to get commit history: ", "GitCommandError">>)
                               EXCEPT !.reopened = Attempts(h)])
               ELSE Effect(h1, p, d,
                           [Ok("get_commit_history") EXCEPT
                                !.commits = [i \in 1 .. Len(commits) |->
                                                commit_entry(r, commits[i])],
                                !.count = Len(commits),
                                !.reopened = Attempts(h)])

\* GitOperationsTool.add_remote; `git remote add` fails when the name is taken.
add_remote_effect(h, p, d, name, url) ==
    LET h1 == Loaded(h, p, d)
    IN IF h1 = None
       THEN Effect(h1, p, d, NoRepositoryLoaded("add_remote", h))
       ELSE LET r == d[h1]
            IN IF r.remotes[name] # NoneStr
               THEN Effect(h1, p, d,
                           [Fail("add_remote", <<"Failed to add remote: ", "GitCommandError">>)
                               EXCEPT !.reopened = Attempts(h)])
               ELSE Effect(h1, p, [d EXCEPT ![h1].remotes[name] = url],
                           [Ok("add_remote") EXCEPT !.reopened = Attempts(h)])

\* GitOperationsTool.get_diff: the paths whose diff is shown stand for the text;
\* `git diff <path>` fails for a path git finds neither in the tree nor in the index.
get_diff_effect(h, p, d, cached, file_path) ==
    LET h1 == Loaded(h, p, d)
    IN IF h1 = None
       THEN Effect(h1, p, d, NoRepositoryLoaded("get_diff", h))
       ELSE LET r == d[h1]
                shown == IF cached THEN diff_index_head(r) ELSE diff_index_worktree(r)
            IN IF file_path # None /\ file_path # ""
                  /\ (file_path \notin Files
                      \/ (r.work[file_path] = 0 /\ r.index[file_path] = 0
                          /\ HeadTree(r)[file_path] = 0))
               THEN Effect(h1, p, d,
                           [Fail("get_diff", <<"Failed to get diff: ", "GitCommandError">>)
                               EXCEPT !.reopened = Attempts(h)])
               ELSE Effect(h1, p, d,
                           [Ok("get_diff") EXCEPT
                                !.diff = IF file_path = None \/ file_path = "" THEN shown
                                         ELSE shown \cap {file_path},
                                !.reopened = Attempts(h)])

----------------------------------------------------------------------------
(* The state machine: one caller, one call at a time.                      *)

\* The disk before the facade is constructed.
InitialDisks ==
    {[q \in Paths |-> IF q = "p1" THEN at ELSE Absent] :
        at \in {Absent, PlainDir, NewRepo("main", HttpsForm("alice", "proj")),
                ChangedRepo("main", HttpsForm("alice", "proj")),
                NewRepo("DETACHED", HttpsForm("alice", "proj"))}}

Init ==
    /\ phase = "new"
    /\ repo = None
    /\ repo_path = None
    /\ github_token = NoneStr
    /\ default_repo_url = NoneStr
    /\ default_branch = "main"
    /\ disk \in InitialDisks
    /\ result = NoResult
    /\ calls = 0
    /\ envSteps = 0
    /\ OneAtATime

\* A call can be made.
CanCall == phase = "live" /\ calls < MaxCalls

\* The call ends: the attributes, the disk and the result are as the operation
\* left them.
Apply(e) ==
    /\ repo' = e.repo
    /\ repo_path' = e.repo_path
    /\ disk' = e.disk
    /\ result' = e.result
    /\ calls' = calls + 1
    /\ UNCHANGED <<phase, github_token, default_repo_url, default_branch, envSteps,
                   pc, mutex>>

\* The result keeps the URL and the destination the caller passed (arg, dest).
clone_repository(url_arg, dest_arg, branch_arg, lib) ==
    /\ CanCall
    /\ LET e == clone_repository_effect(repo, repo_path, disk,
                                        url_arg, dest_arg, branch_arg, lib)
       IN Apply([e EXCEPT !.result.arg = url_arg, !.result.dest = dest_arg])

create_branch(branch_name, checkout, start_point) ==
    /\ CanCall
    /\ LET e == create_branch_effect(repo, repo_path, disk,
                                     branch_name, checkout, start_point)
       IN Apply([e EXCEPT !.result.name = branch_name, !.result.flag = checkout])

checkout_branch(branch_name, create_if_missing) ==
    /\ CanCall
    /\ LET e == checkout_branch_effect(repo, repo_path, disk,
                                       branch_name, create_if_missing)
       IN Apply([e EXCEPT !.result.name = branch_name,
                          !.result.flag = create_if_missing])

stage_files(file_paths, stage_all, lib) ==
    /\ CanCall
    /\ LET e == stage_files_effect(repo, repo_path, disk, file_paths, stage_all, lib)
       IN Apply([e EXCEPT !.result.file_paths = file_paths,
                          !.result.flag = stage_all])

\* The repository the call would work on has room for one more commit.
HasRoom == LET h1 == Loaded(repo, repo_path, disk)
           IN IF h1 = None THEN TRUE ELSE Len(disk[h1].commits) < MaxCommits

commit(message) ==
    /\ CanCall
    /\ HasRoom
    /\ LET e == commit_effect(repo, repo_path, disk, message)
       IN Apply([e EXCEPT !.result.arg = <<message>>])

push(remote, branch, lib) ==
    /\ CanCall
    /\ LET e == push_effect(repo, repo_path, disk, remote, branch, lib)
           \* what Remote.push did, when it was called: raised (flag), or its list
           e1 == IF e.result.network = 1
                 THEN [e EXCEPT !.result.flag = lib.raised, !.result.push_info = lib.info]
                 ELSE e
       IN Apply([e1 EXCEPT !.result.name = remote])

pull(remote, branch, lib) ==
    /\ CanCall
    /\ LET e == pull_effect(repo, repo_path, disk, remote, branch, lib)
       IN Apply([e EXCEPT !.result.name = remote])

get_status ==
    /\ CanCall
    /\ Apply(get_status_effect(repo, repo_path, disk))

get_branches(include_remote) ==
    /\ CanCall
    /\ Apply(get_branches_effect(repo, repo_path, disk, include_remote))

get_commit_history(max_count, branch) ==
    /\ CanCall
    /\ LET e == get_commit_history_effect(repo, repo_path, disk, max_count, branch)
       IN Apply([e EXCEPT !.result.max_count = max_count, !.result.name = branch])

add_remote(name, url) ==
    /\ CanCall
    /\ Apply(add_remote_effect(repo, repo_path, disk, name, url))

get_diff(cached, file_path) ==
    /\ CanCall
    /\ Apply(get_diff_effect(repo, repo_path, disk, cached, file_path))

\* The disk changes between two calls of the facade.
CanChangeDisk == phase = "live" /\ envSteps < MaxEnvSteps
EnvChange(d) ==
    /\ disk' = d
    /\ envSteps' = envSteps + 1
    /\ UNCHANGED <<phase, repo, repo_path, github_token, default_repo_url,
                   default_branch, result, calls, pc, mutex>>

\* The directory write_to_file writes to: GIT_REPO_PATH.
WritePath == "p1"

\* write_to_file (src/tools/file_writer_tool.py): the directory is made if it is not
\* there, and the file is written into it.
write_to_file(f, c) ==
    /\ CanChangeDisk
    /\ IF disk[WritePath].kind = "repo"
       THEN /\ disk[WritePath].work[f] # c
            /\ EnvChange([disk EXCEPT ![WritePath].work[f] = c])
       ELSE /\ disk[WritePath].kind = "absent"
            /\ EnvChange([disk EXCEPT ![WritePath] = PlainDir])

\* Someone else puts a repository at a path where there was nothing.
EnvInitRepo(q) ==
    /\ CanChangeDisk
    /\ disk[q].kind = "absent"
    /\ EnvChange([disk EXCEPT ![q] = NewRepo("main", NoneStr)])

\* A facade is constructed, with or without the environment.
Constructing ==
    \E a \in {None, "p1"}, cfg \in {<<NoneStr, FALSE>>, <<<<"tok">>, FALSE>>, <<NoneStr, TRUE>>} :
        \E env \in {e \in Environments : (e.GIT_REPO_PATH # None) = cfg[2]} :
            Construct(a, cfg[1], cfg[2], env)

\* One caller uses the facade, on a disk that others change meanwhile.
Next ==
    \/ Constructing
    \/ \E u \in {NoneStr, SshForm("alice", "proj")}, q \in {None} \cup Paths,
          bl \in {<<None, "cloned">>, <<None, "GitCommandError">>, <<Tag, "cloned">>} :
          clone_repository(u, q, bl[1], bl[2])
    \/ \E c \in BOOLEAN, sp \in {None, "nope"} : create_branch("feat", c, sp)
    \/ \E c \in BOOLEAN : checkout_branch("feat", c)
    \/ \E fp \in FilePathArgs : stage_files(fp, FALSE, "done")
    \/ \E lib \in GitOutcomes : stage_files([given |-> FALSE, paths |-> {}], TRUE, lib)
    \/ \E m \in {"", "msg"} : commit(m)
    \/ \E r \in RemoteNames, lib \in PushOutcomes : push(r, None, lib)
    \/ \E r \in RemoteNames, lib \in PullOutcomes : pull(r, None, lib)
    \/ get_status
    \/ \E ir \in BOOLEAN : get_branches(ir)
    \/ \E n \in 0 .. MaxCommits : get_commit_history(n, None)
    \/ \E b \in {"main", "nope"} : get_commit_history(1, b)
    \/ \E n \in RemoteNames : add_remote(n, OtherUrl)
    \/ \E c \in BOOLEAN : get_diff(c, None)
    \/ \E f \in {"b.txt", "nope"} : get_diff(FALSE, f)
    \/ \E fc \in {<<"a.txt", 1>>, <<"a.txt", 2>>, <<"b.txt", 1>>} : write_to_file(fc[1], fc[2])
    \/ EnvInitRepo(WritePath)

Spec == Init /\ [][Next]_vars

----------------------------------------------------------------------------
(* _get_authenticated_url on its own: a constructed facade, one call.      *)

\* The facade after GitOperationsTool(repo_path, github_token, use_env_config=False).
InitUrl ==
    /\ phase = "live"
    /\ repo \in {None, "p1"}
    /\ repo_path = repo
    /\ github_token \in {NoneStr, <<>>} \cup Credentials
    /\ default_repo_url = NoneStr
    /\ default_branch = "main"
    /\ disk = [q \in Paths |-> IF q = "p1" /\ repo = "p1"
                               THEN NewRepo("main", HttpsForm("alice", "proj"))
                               ELSE Absent]
    /\ result = [Returned("__init__") EXCEPT !.success = TRUE]
    /\ calls = 0
    /\ envSteps = 0
    /\ OneAtATime

\* A call of _get_authenticated_url: it assigns nothing.
authenticated_url(repo_url) ==
    /\ phase = "live"
    /\ calls = 0
    /\ calls' = 1
    /\ result' = [Returned("_get_authenticated_url") EXCEPT
                      !.arg = repo_url,
                      !.value = get_authenticated_url(github_token, repo_url)]
    /\ UNCHANGED <<phase, repo, repo_path, github_token, default_repo_url,
                   default_branch, disk, envSteps, pc, mutex>>

NextUrl == calls = 0 /\ \E u \in UrlInputs : authenticated_url(u)

SpecUrl == InitUrl /\ [][NextUrl]_vars

----------------------------------------------------------------------------
(* Repeated push and pull with a credential.  The facade is bound to a     *)
(* repository whose remote `origin` has any URL; GIT_REPO_URL is that URL  *)
(* and stays what it was, push and pull never assign it.                   *)

\* The URLs a remote is stored with: every short piece sequence, the forms of a
\* GitHub URL, a URL on another host, and URLs that hold a prefix twice.
RemoteUrls ==
    (SeqsUpTo(UrlPieces, MaxUrlLen - 1) \ {<<>>})
        \cup {SshForm(o, n) : o \in Names, n \in Names}
        \cup {HttpsForm(o, n) : o \in Names, n \in Names}
        \cup {OtherUrl, HTTPS_PREFIX \o HTTPS_PREFIX, SSH_PREFIX \o SSH_PREFIX,
              SSH_PREFIX \o HTTPS_PREFIX}

InitRewrite ==
    /\ phase = "live"
    /\ repo = "p1"
    /\ repo_path = "p1"
    /\ github_token \in Credentials
    /\ default_repo_url \in RemoteUrls
    /\ default_branch = "main"
    /\ disk = [q \in Paths |-> IF q = "p1" THEN NewRepo("main", default_repo_url)
                               ELSE Absent]
    /\ result = [Returned("__init__") EXCEPT !.success = TRUE]
    /\ calls = 0
    /\ envSteps = 0
    /\ OneAtATime

NextRewrite ==
    \/ \E r \in RemoteNames, lib \in PushOutcomes : push(r, None, lib)
    \/ \E r \in RemoteNames, lib \in PullOutcomes : pull(r, None, lib)

SpecRewrite == InitRewrite /\ [][NextRewrite]_vars

----------------------------------------------------------------------------
(* Two callers of clone_repository on one facade (the agent's tools share   *)
(* the one `gitOps`).  A call is not one step here: clone_from, the          *)
(* assignment of self.repo, the assignment of self.repo_path and the        *)
(* building of the result are steps of their own, and the steps of two      *)
(* calls interleave unless the callers hold a lock of their own around the  *)
(* call (mutex is "unused" when they hold none).                            *)

InitRace ==
    /\ phase = "live"
    /\ repo = None
    /\ repo_path = None
    /\ github_token = NoneStr
    /\ default_repo_url = NoneStr
    /\ default_branch = "main"
    /\ disk = [q \in Paths |-> Absent]
    /\ result = [Returned("__init__") EXCEPT !.success = TRUE]
    /\ calls = 0
    /\ envSteps = 0
    /\ pc = [c \in Callers |-> "idle"]
    /\ mutex \in {"unused", "free"}

\* The caller takes the lock, when the callers use one.
Enter(c) == IF mutex = "unused" THEN "unused" ELSE c
Leave(c) == IF mutex = "unused" THEN "unused" ELSE "free"

\* The call up to the right-hand side of `self.repo = Repo.clone_from(...)`: the
\* arguments are checked and git makes the clone at the destination, or fails and
\* the call returns at once.  Nothing is assigned yet.
race_clone_from(c, repo_url, branch_arg, lib) ==
    /\ CanCall
    /\ pc[c] = "idle"
    /\ mutex \in {"unused", "free"}
    /\ LET e == clone_repository_effect(repo, repo_path, disk, repo_url, Destination[c],
                                        branch_arg, lib)
           made == IsRepo(e.disk, Destination[c]) /\ ~IsRepo(disk, Destination[c])
       IN /\ disk' = e.disk
          /\ IF made
             THEN /\ pc' = [pc EXCEPT ![c] = "cloned"]
                  /\ mutex' = Enter(c)
                  /\ UNCHANGED result
             ELSE /\ result' = [e.result EXCEPT !.dest = Destination[c]]
                  /\ UNCHANGED <<pc, mutex>>
    /\ calls' = calls + 1
    /\ UNCHANGED <<phase, repo, repo_path, github_token, default_repo_url,
                   default_branch, envSteps>>

\* The path is kept as it was.
race_assign_path_Kept(c) ==
    /\ pc[c] = "handle"
    /\ pc' = [pc EXCEPT ![c] = "path"]
    /\ UNCHANGED <<phase, repo, repo_path, github_token, default_repo_url,
                   default_branch, disk, result, calls, envSteps, mutex>>

\* `self.repo = ...`: the handle is the caller's clone.
race_assign_handle(c) ==
    /\ pc[c] = "cloned"
    /\ repo' = Destination[c]
    /\ pc' = [pc EXCEPT ![c] = "handle"]
    /\ UNCHANGED <<phase, repo_path, github_token, default_repo_url, default_branch,
                   disk, result, calls, envSteps, mutex>>

\* `self.repo_path = destination_path`
race_assign_path(c) ==
    /\ pc[c] = "handle"
    /\ repo_path' = Destination[c]
    /\ pc' = [pc EXCEPT ![c] = "path"]
    /\ UNCHANGED <<phase, repo, github_token, default_repo_url, default_branch,
                   disk, result, calls, envSteps, mutex>>

\* The result is built from the caller's destination and from the branch of
\* self.repo, whichever clone that is by now; the call ends.
race_return(c) ==
    /\ pc[c] = "path"
    /\ result' = [clone_result(Destination[c], disk[repo].active)
                      EXCEPT !.dest = Destination[c]]
    /\ pc' = [pc EXCEPT ![c] = "idle"]
    /\ mutex' = Leave(c)
    /\ UNCHANGED <<phase, repo, repo_path, github_token, default_repo_url,
                   default_branch, disk, calls, envSteps>>

NextRace ==
    \/ \E c \in Callers, bl \in {<<None, "cloned">>, <<None, "GitCommandError">>,
                                  <<Tag, "cloned">>} :
          race_clone_from(c, SshForm("alice", "proj"), bl[1], bl[2])
    \/ \E c \in Callers : race_assign_handle(c)
    \/ \E c \in Callers : race_assign_path(c)
    \/ \E c \in Callers : race_return(c)

SpecRace == InitRace /\ [][NextRace]_vars

----------------------------------------------------------------------------
(* Properties.                                                             *)

\* The operations that need a loaded repository.
RepoOps == {"create_branch", "checkout_branch", "stage_files", "commit", "push", "pull",
            "get_status", "get_branches", "get_commit_history", "add_remote", "get_diff"}

\* The step is a call of a facade operation (construction is not one).
Called == calls' = calls + 1
CalledOp(op) == Called /\ result'.op = op

\* An error text with at least one character.
NonEmptyText(error) == \E i \in 1 .. Len(error) : error[i] # ""

\* C1: every facade operation ends by returning a result record, never by an
\* exception that leaves the operation, and a record with success=false carries a
\* non-empty error text.  (The code catches GitCommandError only, in nine of the
\* twelve operations.)
C1_OperationsNeverRaise ==
    (phase = "live" /\ calls > 0) =>
        /\ result.outcome = "returned"
        /\ (~result.success => NonEmptyText(result.error))

\* The facade is unbound and has no path that leads to a repository.
Unresolvable == repo = None /\ (NoPath(repo_path) \/ ~exists(disk, repo_path)
                                  \/ ~IsRepo(disk, repo_path))

\* C2: on an unbound facade whose path is absent, not on disk or not a repository,
\* each operation that needs a repository returns success=false with the error
\* 'No repository loaded', touches nothing on disk, makes no network call, and
\* leaves the facade unbound with the same path.
C2_NoRepositoryLoaded ==
    [][(Called /\ result'.op \in RepoOps /\ Unresolvable) =>
          /\ result'.outcome = "returned"
          /\ ~result'.success
          /\ result'.error = <<"No repository loaded">>
          /\ result'.network = 0
          /\ disk' = disk
          /\ repo' = None
          /\ repo_path' = repo_path]_vars

\* C2 happens: an operation was refused on a facade whose path is a plain directory.
C2_Witness ==
    /\ result.op \in RepoOps
    /\ result.error = <<"No repository loaded">>
    /\ repo = None
    /\ repo_path # None
    /\ disk[repo_path].kind = "dir"

\* C3: construction with the path P (the argument, else GIT_REPO_PATH when the
\* environment is used) has three outcomes: P is a repository: the facade is bound
\* and its path is P; P exists and is no repository: ValueError naming P, and no
\* facade; P does not exist or there is no P: the facade is unbound and keeps P.
C3_Construction ==
    [][phase = "new" =>
        \A a \in {None} \cup Paths, t \in {NoneStr, <<"tok">>}, u \in BOOLEAN,
          env \in Environments :
          Construct(a, t, u, env) =>
             LET P == IF u THEN OrPath(a, env.GIT_REPO_PATH) ELSE a
             IN IF NoPath(P) \/ ~exists(disk, P)
                THEN phase' = "live" /\ repo' = None /\ repo_path' = P
                ELSE IF IsRepo(disk, P)
                THEN phase' = "live" /\ repo' = P /\ repo_path' = P
                ELSE /\ phase' = "failed"
                     /\ result'.outcome = "raised"
                     /\ result'.exc = "ValueError"
                     /\ result'.error = <<P, " is not a valid Git repository">>]_vars

\* C3 happens: a facade was constructed on an existing repository and is bound to it.
C3_Witness ==
    /\ phase = "live"
    /\ result.op = "__init__"
    /\ repo # None
    /\ repo = repo_path
    /\ IsRepo(disk, repo)

\* C4: a clone call that returns success=false leaves self.repo and self.repo_path
\* as they were, whatever the facade's state before the call.
C4_FailedCloneKeepsBinding ==
    [][(CalledOp("clone_repository") /\ result'.outcome = "returned" /\ ~result'.success)
          => (repo' = repo /\ repo_path' = repo_path)]_vars

\* C4 happens: a clone failed in git on a facade that was bound, and is still bound.
C4_Witness ==
    /\ result.op = "clone_repository"
    /\ result.outcome = "returned"
    /\ ~result.success
    /\ result.network = 1
    /\ repo # None
    /\ repo = repo_path

\* C5: after a clone call that returns success=true the facade is bound to the
\* repository at the resolved destination (the argument, else the stored path) and
\* that destination is its path; the handle it had before is gone.
C5_CloneBinds ==
    [][(CalledOp("clone_repository") /\ result'.success) =>
          LET destination == OrPath(result'.dest, repo_path)
          IN /\ repo' = destination
             /\ repo_path' = destination
             /\ IsRepo(disk', destination)
             /\ result'.repo_path = destination]_vars

\* C5 happens: a clone to p2 succeeded while a repository the facade could have been
\* bound to is at p1.
C5_Witness ==
    /\ result.op = "clone_repository"
    /\ result.success
    /\ repo = "p2"
    /\ repo_path = "p2"
    /\ IsRepo(disk, "p1")

\* C6: clone takes the URL from the argument, else the default URL, and the
\* destination from the argument, else the stored path; a missing URL is reported
\* first, a missing destination next, and in both cases clone_from is not called.
C6_CloneMissingParameter ==
    [][CalledOp("clone_repository") =>
          LET url == OrStr(result'.arg, default_repo_url)
              destination == OrPath(result'.dest, repo_path)
          IN /\ Falsy(url) =>
                   /\ result'.outcome = "returned" /\ ~result'.success
                   /\ result'.error = MissingUrl
                   /\ result'.network = 0 /\ disk' = disk
             /\ (~Falsy(url) /\ NoPath(destination)) =>
                   /\ result'.outcome = "returned" /\ ~result'.success
                   /\ result'.error = MissingDestination
                   /\ result'.network = 0 /\ disk' = disk
             /\ (~Falsy(url) /\ ~NoPath(destination)) => result'.network = 1]_vars

\* C6 happens: neither URL nor destination could be resolved, and the URL was the
\* one reported.
C6_Witness ==
    /\ result.op = "clone_repository"
    /\ result.error = MissingUrl
    /\ repo_path = None
    /\ default_repo_url = NoneStr

\* C7: the facade goes from unbound to bound only in a clone that succeeds or in the
\* lazy reopen of another operation, which binds to the stored path; no operation
\* but clone changes the stored path; and an operation other than clone called on
\* an unbound facade ends bound to the stored path, or unbound with the
\* 'No repository loaded' result.
C7_BindingTransitions ==
    [][Called =>
          /\ (repo = None /\ repo' # None) =>
                \/ result'.op = "clone_repository" /\ result'.success
                \/ result'.op # "clone_repository" /\ repo' = repo_path
          /\ result'.op # "clone_repository" => repo_path' = repo_path
          /\ (result'.op # "clone_repository" /\ repo = None) =>
                \/ repo' = repo_path
                \/ repo' = None /\ result'.error = <<"No repository loaded">>]_vars


\* The URL does not name github.com anywhere.
NotGitHub(url) == \A i \in 1 .. Len(url) : url[i] # "github.com"

\* C8: _get_authenticated_url returns the URL it was given when no credential is
\* configured, and for a URL that is not a GitHub URL even with a credential; the
\* call changes nothing in the facade or in the remotes stored on disk.
C8_UrlUnchanged ==
    [][CalledOp("_get_authenticated_url") =>
          /\ (Falsy(github_token) \/ NotGitHub(result'.arg)) => result'.value = result'.arg
          /\ UNCHANGED <<repo, repo_path, github_token, default_repo_url,
                         default_branch, disk>>]_vars

\* C8 happens: with a credential configured, a URL on another host came back as given.
C8_Witness ==
    /\ result.op = "_get_authenticated_url"
    /\ ~Falsy(github_token)
    /\ result.arg = OtherUrl
    /\ result.value = OtherUrl

\* C9: with the credential T configured, git@github.com:owner/repo.git and
\* https://github.com/owner/repo.git both become https://T@github.com/owner/repo.git,
\* for every owner and repo and in every state of the facade.
C9_GitHubUrlRewritten ==
    (result.op = "_get_authenticated_url" /\ ~Falsy(github_token)) =>
        \A o \in Names, n \in Names :
            (result.arg = SshForm(o, n) \/ result.arg = HttpsForm(o, n)) =>
                result.value = TokenForm(github_token, o, n)

\* C9 happens: the SSH form was rewritten for a bound facade.
C9_Witness ==
    /\ result.op = "_get_authenticated_url"
    /\ ~Falsy(github_token)
    /\ repo # None
    /\ result.arg = SshForm("alice", "proj")
    /\ result.value = TokenForm(github_token, "alice", "proj")

\* The sets of paths a get_status result reports.
ReportedPaths(res) == res.untracked_files \cup res.modified_files \cup res.staged_files

\* C10 as stated: get_status reports is_dirty = true exactly when one of the sets
\* untracked_files, modified_files, staged_files is not empty.
C10_DirtyIffAnySetNonEmpty ==
    (result.op = "get_status" /\ result.success) =>
        (result.is_dirty <=> ReportedPaths(result) # {})

\* The index and the working tree are those of HEAD.
CleanTree(r) == r.index = HeadTree(r) /\ r.work = r.index
\* The working tree differs from a clean one by the untracked file f alone.
OnlyUntracked(r, f) ==
    /\ r.index = HeadTree(r)
    /\ r.index[f] = 0 /\ r.work[f] # 0
    /\ \A g \in Files \ {f} : r.work[g] = r.index[g]

\* C10, amended: get_status reports is_dirty = true exactly when modified_files or
\* staged_files is not empty; untracked files do not count.  On a clean tree the
\* three sets are empty and is_dirty is false; with one untracked file added, the
\* file is in untracked_files alone and is_dirty is still false.
C10_DirtyIffModifiedOrStaged ==
    [][(CalledOp("get_status") /\ result'.success) =>
          LET r == disk'[repo']
              res == result'
          IN /\ res.is_dirty <=> (res.modified_files \cup res.staged_files) # {}
             /\ CleanTree(r) => (ReportedPaths(res) = {} /\ ~res.is_dirty)
             /\ \A f \in Files :
                   OnlyUntracked(r, f) =>
                      /\ res.untracked_files = {f}
                      /\ res.modified_files = {}
                      /\ res.staged_files = {}
                      /\ ~res.is_dirty]_vars

\* C10 happens: get_status ran on a tree with an untracked file and nothing else.
C10_Witness ==
    /\ result.op = "get_status"
    /\ result.success
    /\ result.untracked_files = {"b.txt"}
    /\ result.modified_files = {}
    /\ result.staged_files = {}
    /\ ~result.is_dirty

Min(a, b) == IF a <= b THEN a ELSE b

\* C11: get_commit_history(max_count, branch) on a loaded repository whose start
\* point (the tip of branch, or HEAD) has N reachable commits returns min(max_count,
\* N) entries for a max_count that is a count (0 or more), and count is the length of
\* the list; the first entry is the start point, every entry is followed by its
\* parent and is not older than it, and short_sha is the first 7 characters of sha.
C11_CommitHistory ==
    [][(CalledOp("get_commit_history") /\ result'.success) =>
          LET r == disk'[repo']
              start == IF result'.name = None THEN HeadCommit(r)
                       ELSE r.heads[result'.name]
              N == Len(Ancestry(r, start))
              list == result'.commits
          IN /\ Len(list) = Min(result'.max_count, N)
             /\ result'.count = Len(list)
             /\ Len(list) > 0 => list[1].sha = hexsha(start)
             /\ \A i \in 1 .. Len(list) - 1 :
                   /\ list[i + 1].sha = hexsha(r.commits[list[i].date].parent)
                   /\ list[i].date >= list[i + 1].date
             /\ \A i \in 1 .. Len(list) :
                   /\ Len(list[i].sha) = 40
                   /\ Len(list[i].short_sha) = 7
                   /\ \A k \in 1 .. 7 : list[i].short_sha[k] = list[i].sha[k]]_vars

\* C11 happens: a history of two commits was asked for with max_count 1 and with
\* max_count 2.
C11_Witness ==
    /\ result.op = "get_commit_history"
    /\ result.success
    /\ repo # None
    /\ Len(Ancestry(disk[repo], HeadCommit(disk[repo]))) = 2
    /\ result.max_count = 1
    /\ result.count = 1
    /\ result.commits[1].sha = hexsha(HeadCommit(disk[repo]))

NoFilesSpecified == <<"No files specified and stage_all is False">>

\* C12: stage_files on a bound facade with stage_all false and file_paths absent or
\* an empty list returns success=false with the error 'No files specified and
\* stage_all is False', and leaves the disk (index and working tree) and the binding
\* as they were.
C12_NoFilesSpecified ==
    [][(CalledOp("stage_files") /\ repo # None /\ ~result'.flag
          /\ result'.file_paths.paths = {}) =>
          /\ result'.outcome = "returned"
          /\ ~result'.success
          /\ result'.error = NoFilesSpecified
          /\ disk' = disk
          /\ repo' = repo
          /\ repo_path' = repo_path]_vars

\* C12 happens: an empty list was passed while the working tree had a change to
\* stage.
C12_Witness ==
    /\ result.op = "stage_files"
    /\ result.file_paths.given
    /\ result.file_paths.paths = {}
    /\ result.error = NoFilesSpecified
    /\ repo # None
    /\ disk[repo].work # disk[repo].index

\* The call staged everything on a facade that was bound, and succeeded.
StagedAll == /\ CalledOp("stage_files")
             /\ repo # None
             /\ result'.flag
             /\ result'.success

\* What a get_status called next would return.
FollowingStatus == get_status_effect(repo', repo_path', disk').result

IsFullId(sha) ==
    /\ Len(sha) = 40
    /\ \A k \in 1 .. 40 : \E j \in 1 .. 16 : sha[k] = HexDigits[j]

\* commit succeeded on a bound facade whose index had staged changes.
CommittedStaged == /\ CalledOp("commit")
                   /\ result'.success
                   /\ repo # None
                   /\ diff_index_head(disk[repo]) # {}

\* What get_commit_history called next, for one commit of the current head, would
\* return.
FollowingHistory == get_commit_history_effect(repo', repo_path', disk', 1, None).result

\* C14 as stated: the record a successful commit returns holds the full identifier
\* and a short identifier that is its first 7 characters.
C14_CommitReportsShortId ==
    [][CommittedStaged =>
          /\ IsFullId(result'.commit_sha)
          /\ result'.short_sha = SubSeq(result'.commit_sha, 1, 7)]_vars

\* C14, amended: the record a successful commit returns holds the full identifier,
\* 40 lowercase hexadecimal characters, and no short identifier; the new commit is
\* the first entry of a get_commit_history that follows, with the same full
\* identifier and a short identifier that is its first 7 characters.
C14_CommitReportsFullId ==
    [][CommittedStaged =>
          /\ IsFullId(result'.commit_sha)
          /\ result'.short_sha = NoneStr
          /\ result'.commit_sha = hexsha(HeadCommit(disk'[repo']))
          /\ HeadCommit(disk'[repo']) # HeadCommit(disk[repo])
          /\ FollowingHistory.success
          /\ FollowingHistory.commits[1].sha = result'.commit_sha
          /\ FollowingHistory.commits[1].short_sha = SubSeq(result'.commit_sha, 1, 7)]_vars

\* C14 happens: a commit was made of an index with a staged file.
C14_Witness ==
    /\ result.op = "commit"
    /\ result.success
    /\ IsFullId(result.commit_sha)
    /\ repo # None
    /\ HeadTree(disk[repo]) # InitialTree
    /\ Len(disk[repo].commits) = 2

\* C15: create_branch(name, checkout, start_point) that succeeds on a bound facade
\* leaves name among the local branches; with checkout the active branch is name,
\* without it the active branch is the one before the call; current_branch in the
\* result is the active branch of the repository after the call.
C15_CreateBranch ==
    [][(CalledOp("create_branch") /\ result'.success /\ repo # None) =>
          LET before == disk[repo]
              after == disk'[repo']
          IN /\ result'.name \in LocalBranches(after)
             /\ result'.flag => after.active = result'.name
             /\ ~result'.flag => after.active = before.active
             /\ result'.current_branch = after.active
             /\ result'.branch_name = result'.name
             /\ result'.checked_out = result'.flag]_vars

\* C15 happens: a branch was created without checkout and the active branch is
\* still the other one.
C15_Witness ==
    /\ result.op = "create_branch"
    /\ result.success
    /\ ~result.flag
    /\ repo # None
    /\ result.name \in LocalBranches(disk[repo])
    /\ disk[repo].active # result.name
    /\ result.current_branch = disk[repo].active

BranchNotFound(name) == <<"Branch '", name, "' does not exist">>

PushRejected == <<"Push failed: ", "summary">>

C18_OneLazyReopen ==
    [][(Called /\ result'.op \in RepoOps) =>
          result'.reopened = IF repo = None THEN 1 ELSE 0]_vars

\* C18 happens: checkout_branch with create_if_missing reopened the repository at
\* the stored path, and create_branch made the branch without a second attempt.
C18_Witness ==
    /\ result.op = "checkout_branch"
    /\ result.flag
    /\ result.checked_out
    /\ result.success
    /\ result.reopened = 1
    /\ repo # None

\* Every remote there was is still there with the URL it had.
RemotesKept ==
    \A q \in Paths :
        IsRepo(disk, q) =>
            /\ IsRepo(disk', q)
            /\ \A n \in RemoteNames :
                  disk[q].remotes[n] # NoneStr => disk'[q].remotes[n] = disk[q].remotes[n]

\* C19: a call that is not push or pull, and every call of a facade without a
\* credential, leaves the URL of every remote as it was; after push or pull on the
\* remote R of the loaded repository with the credential T, the URL of R is
\* _get_authenticated_url of the URL it had before, and the other remotes are as they
\* were.
C19_RemoteUrlRewrittenInPushPull ==
    [][Called =>
          IF result'.op \in {"push", "pull"} /\ ~Falsy(github_token)
          THEN repo' # None =>
                  LET before == disk[repo'].remotes
                      after == disk'[repo'].remotes
                      R == result'.name
                  IN /\ before[R] # NoneStr =>
                           after[R] = get_authenticated_url(github_token, before[R])
                     /\ \A n \in RemoteNames \ {R} : after[n] = before[n]
          ELSE RemotesKept]_vars

\* C20: commit called with an empty message on a bound facade returns success=false
\* and makes no commit: the commits and the index of the repository are as they
\* were.
C20_EmptyMessageRejected ==
    [][(CalledOp("commit") /\ repo # None /\ result'.arg = <<"">>) =>
          /\ result'.outcome = "returned"
          /\ ~result'.success
          /\ disk'[repo'].commits = disk[repo].commits
          /\ disk'[repo'].index = disk[repo].index]_vars

\* The commits reachable from HEAD.
ReachableCommits(r) == Len(Ancestry(r, HeadCommit(r)))

\* C21: commit called on a bound facade whose index is that of HEAD (nothing staged)
\* returns success=false, and as many commits are reachable from HEAD after the
\* call as before.
C21_NothingStagedRejected ==
    [][(CalledOp("commit") /\ repo # None /\ diff_index_head(disk[repo]) = {}) =>
          /\ result'.outcome = "returned"
          /\ ~result'.success
          /\ ReachableCommits(disk'[repo']) = ReachableCommits(disk[repo])]_vars

NetworkOps == {"clone_repository", "push", "pull"}
NetworkFailures == {"Failed to clone repository: ", "Failed to push: ", "Push failed: ",
                    "Failed to pull: "}

\* C22: a call of clone_repository, push or pull calls clone_from, Remote.push or
\* Remote.pull at most once; when that one call fails the failure is what the
\* operation returns, with no second attempt, and the operation ends there.
C22_NoRetry ==
    [][(Called /\ result'.op \in NetworkOps) =>
          /\ result'.network <= 1
          /\ calls' = calls + 1
          /\ (result'.outcome = "returned" /\ ~result'.success
                /\ result'.error[1] \in NetworkFailures) => result'.network = 1]_vars

\* C22 happens: a pull failed in git and the failure was returned after one attempt.
C22_Witness ==
    /\ result.op = "pull"
    /\ result.outcome = "returned"
    /\ ~result.success
    /\ result.error = <<"Failed to pull: ", "GitCommandError">>
    /\ result.network = 1

\* C23: a bound facade stays bound whatever is called, and its handle changes only
\* in a clone_repository that returns success=true.
C23_BoundStaysBound ==
    [][repo # None =>
          /\ repo' # None
          /\ repo' # repo => (CalledOp("clone_repository") /\ result'.success)]_vars

\* C24: with one caller at a time, a bound facade has a stored path, and its handle
\* is the repository at that path.
C24_HandleAtStoredPath ==
    repo # None =>
        /\ repo_path # None
        /\ repo = repo_path
        /\ IsRepo(disk, repo_path)

\* C24 happens: a facade bound to p1 by its constructor was bound to p2 by a clone.
C24_Witness ==
    /\ result.op = "clone_repository"
    /\ result.success
    /\ result.dest = "p2"
    /\ repo = "p2"
    /\ repo_path = "p2"
    /\ IsRepo(disk, "p1")
    /\ calls = 1

\* C25: in a call of clone_repository the handle and the stored path change only
\* when the call returns a record with success=true.
C25_BindingChangesOnlyOnSuccess ==
    [][CalledOp("clone_repository") =>
          (<<repo', repo_path'>> # <<repo, repo_path>> =>
              (result'.outcome = "returned" /\ result'.success))]_vars

\* How many times t occurs in s.
RECURSIVE Occurrences(_, _)
Occurrences(s, t) ==
    IF Len(s) < Len(t) THEN 0
    ELSE IF SubSeq(s, 1, Len(t)) = t
         THEN 1 + Occurrences(SubSeq(s, Len(t) + 1, Len(s)), t)
         ELSE Occurrences(Tail(s), t)

\* The URLs of GitHub repositories, in the SSH and the HTTPS form.
GitHubUrls ==
    {SshForm(o, n) : o \in Names, n \in Names} \cup {HttpsForm(o, n) : o \in Names, n \in Names}

\* C26: with a credential configured, rewriting a rewritten URL changes nothing,
\* for every URL; so whatever pushes and pulls were made on `origin`, its stored URL
\* is the original one or a single rewrite of it, it is the single rewrite once a
\* push or pull on `origin` was made, and for a GitHub URL it then carries the
\* credential exactly once.
C26_RewriteIdempotent ==
    LET once == get_authenticated_url(github_token, default_repo_url)
        stored == disk["p1"].remotes["origin"]
    IN /\ get_authenticated_url(github_token, once) = once
       /\ stored \in {default_repo_url, once}
       /\ (result.op \in {"push", "pull"} /\ result.name = "origin") =>
             /\ stored = once
             /\ default_repo_url \in GitHubUrls => Occurrences(stored, github_token) = 1

C26_Witness ==
    /\ calls = 2
    /\ result.op = "pull"
    /\ result.name = "origin"
    /\ result.success
    /\ default_repo_url = SshForm("alice", "proj")
    /\ disk["p1"].remotes["origin"] = TokenForm(github_token, "alice", "proj")

\* A push or pull returned success=false after the network operation was tried.
NetworkFailed ==
    /\ result'.op \in {"push", "pull"}
    /\ result'.outcome = "returned"
    /\ ~result'.success
    /\ result'.network = 1

\* C27: with a credential configured, after a push or pull whose network operation
\* was rejected or raised, the remote's stored URL is the rewritten one.
C27_RewriteKeptOnFailure ==
    [][(Called /\ NetworkFailed /\ ~Falsy(github_token)) =>
          disk'[repo'].remotes[result'.name] =
              get_authenticated_url(github_token, disk[repo'].remotes[result'.name])]_vars

C27_Witness ==
    /\ result.op = "pull"
    /\ result.outcome = "returned"
    /\ ~result.success
    /\ result.network = 1
    /\ result.name = "origin"
    /\ github_token \in Credentials
    /\ repo = "p1"
    /\ calls = 1
    /\ disk["p1"].remotes["origin"] = TokenForm(github_token, "alice", "proj")

\* The first entry of a per-reference result list carries the error flag.
FirstFlagged(push_info) == push_info # <<>> /\ Head(push_info)

\* C28: a push on a bound facade returns success=false only after Remote.push
\* raised a git command error or flagged the first entry of its list; and once
\* Remote.push was called, the push returns, with success=false in exactly those
\* two cases: an empty list, or a flag on a later entry only, gives success=true.
C28_PushFailsExactlyWhen ==
    [][(CalledOp("push") /\ repo # None) =>
          /\ (result'.outcome = "returned" /\ ~result'.success) => result'.network = 1
          /\ result'.network = 1 =>
                /\ result'.outcome = "returned"
                /\ ~result'.success <=> (result'.flag \/ FirstFlagged(result'.push_info))]_vars

C28_Witness ==
    /\ result.op = "push"
    /\ result.outcome = "returned"
    /\ result.success
    /\ result.network = 1
    /\ ~result.flag
    /\ result.push_info = <<FALSE, TRUE>>

ReadOnlyOps == {"get_status", "get_branches", "get_commit_history", "get_diff"}

\* C29: get_status, get_branches, get_commit_history and get_diff, called on a
\* bound facade, change neither the handle, the stored path, the configuration
\* nor anything on the disk (active branch, branches, index, work tree, commits,
\* remotes); every later operation is computed from these alone, so its result is
\* what it would have been without the call.
C29_ReadOnlyOperations ==
    [][(Called /\ result'.op \in ReadOnlyOps /\ repo # None) =>
          UNCHANGED <<repo, repo_path, disk, phase, github_token, default_repo_url,
                      default_branch>>]_vars

C29_Witness ==
    /\ calls = 2
    /\ result.op = "get_status"
    /\ result.success
    /\ result.modified_files = {"a.txt"}
    /\ result.untracked_files = {"b.txt"}
    /\ result.staged_files = {}
    /\ repo = "p1"
    /\ disk["p1"] = ChangedRepo("main", HttpsForm("alice", "proj"))

\* The handle refers to the repository at one destination and the stored path
\* names another.
Mismatch == repo \in Paths /\ repo_path \in Paths /\ repo # repo_path
\* No caller is inside a call.
BetweenCalls == \A c \in Callers : pc[c] = "idle"

====
